---- MODULE Spec2Model ----
(***************************************************************************)
(* State-machine model of esp32/network_bluetooth.c (MicroPython ESP32     *)
(* Bluetooth bring-up module): the HCI command table and frame builder,    *)
(* the transport sender with its readiness loop, the init/deinit life      *)
(* cycle, the constructor and the ble_settings configuration call on the   *)
(* process-wide singleton.                                                 *)
(***************************************************************************)
EXTENDS Integers, Sequences, FiniteSets, TLC

(***************************************************************************)
(* Bounds of the model (not program constants).                            *)
(***************************************************************************)
\* Frames the transport log holds before the model stops starting new sends.
MaxSent == 2
\* Polls of the readiness predicate that one send may make before the model
\* stops exploring it (the loop of the code stops by itself well before).
MaxPolls == 6
\* Number of cells of the m_malloc heap.
HeapSize == 2

(***************************************************************************)
(* Program constants.                                                      *)
(***************************************************************************)
HCI_GRP_HOST_CONT_BASEBAND_CMDS == 3
HCI_GRP_BLE_CMDS == 8
H4_TYPE_COMMAND == 1
BD_ADDR_LEN == 6
HCI_CMD_RESET == 0
HCI_CMD_BLE_WRITE_ADV_ENABLE == 1
HCI_CMD_BLE_WRITE_ADV_PARAMS == 2
HCI_CMD_BLE_WRITE_ADV_DATA == 3
\* sizeof(hci_cmd_def_t): the 3-byte preamble union.
SIZEOF_HCI_CMD_DEF == 3
\* The null pointer; heap addresses are 1..HeapSize.
NULL == 0
\* "int tries = 3" of network_bluetooth_send_data.
INITIAL_TRIES == 3
\* 1280 * 1.6, the initial interval of params and data.
DEFAULT_INTERVAL == 2048

Tasks == {"main", "other"}
\* The task the sequential specification runs every call on.
MainTask == "main"

VARIABLES
    state,          \* self->state: "DEINIT" or "INIT"
    params,         \* self->params (esp_ble_adv_params_t)
    data,           \* self->data (esp_ble_adv_data_t)
    heap,           \* m_malloc heap: address -> [live, bytes]
    double_free,    \* m_free was called on a block that was not live
    dev_name,       \* device name held by the controller (esp_ble_gap_set_device_name)
    sent,           \* frames handed to esp_vhci_host_send_packet, in order
    pc,             \* per task: where its current call stands
    ret,            \* per task: local "ret" of network_bluetooth_init
    buf,            \* per task: local frame "buf" of network_bluetooth_send_hci_reset
    tries,          \* per task: local "tries" of network_bluetooth_send_data
    polls,          \* per task: readiness evaluations made by the current/last send
    sleeps,         \* per task: vTaskDelay calls made by the current/last send
    handed,         \* per task: esp_vhci_host_send_packet calls of the current/last send
    call_enables,   \* per task: esp_bt_controller_enable calls of the current/last init
    entry,          \* per task: the entry point of the current call
    constructed,    \* network_bluetooth_make_new has returned the singleton
    crashed,        \* the firmware took a fatal exception
    last,           \* the last finished call: what it was given and how it ended
    given,          \* args[] of the last ble_settings call, where a specification keeps them
    pend,           \* per task: args[] and buffer infos of its ble_settings call in progress
    seen            \* per task: the params values its last print read

vars == <<state, params, data, heap, double_free, dev_name, sent,
          pc, ret, buf, tries, polls, sleeps, handed, call_enables, entry,
          constructed, crashed, last, given, pend, seen>>

store == <<params, data, heap, double_free, dev_name>>
lifecycle == <<state, sent>>
locals == <<ret, buf, tries, polls, sleeps, handed, call_enables>>
aux == <<given, pend, seen>>

(***************************************************************************)
(* HCI command table and frame builder.                                    *)
(***************************************************************************)
MAKE_OPCODE(OGF, OCF) == (OGF * 1024) + OCF

\* Mutant of MAKE_OPCODE_BYTES: the high byte of the opcode first.
MAKE_OPCODE_BYTES_HighFirst(OGF, OCF) ==
    << (MAKE_OPCODE(OGF, OCF) \div 256) % 256, MAKE_OPCODE(OGF, OCF) % 256 >>

\* { opcode & 0xff, opcode >> 8 }, each stored in a uint8_t.
MAKE_OPCODE_BYTES(OGF, OCF) ==
    << MAKE_OPCODE(OGF, OCF) % 256, (MAKE_OPCODE(OGF, OCF) \div 256) % 256 >>

hci_commands(cmd) ==
    CASE cmd = HCI_CMD_RESET ->
            [opcode |-> MAKE_OPCODE_BYTES(HCI_GRP_HOST_CONT_BASEBAND_CMDS, 3), param_size |-> 0]
      [] cmd = HCI_CMD_BLE_WRITE_ADV_ENABLE ->
            [opcode |-> MAKE_OPCODE_BYTES(HCI_GRP_BLE_CMDS, 10), param_size |-> 1]
      [] cmd = HCI_CMD_BLE_WRITE_ADV_PARAMS ->
            [opcode |-> MAKE_OPCODE_BYTES(HCI_GRP_BLE_CMDS, 6), param_size |-> 15]
      [] cmd = HCI_CMD_BLE_WRITE_ADV_DATA ->
            [opcode |-> MAKE_OPCODE_BYTES(HCI_GRP_BLE_CMDS, 8), param_size |-> 31]

\* buf of buf_size = 1 + sizeof(hci_cmd_def_t) + param_size bytes, zeroed, then
\* buf[0] = H4_TYPE_COMMAND and the 3-byte table entry copied to buf + 1.
CREATE_HCI_HOST_COMMAND(cmd) ==
    LET def == hci_commands(cmd)
        buf_size == 1 + SIZEOF_HCI_CMD_DEF + def.param_size
        preamble == << def.opcode[1], def.opcode[2], def.param_size >>
    IN  [i \in 1..buf_size |->
            IF i = 1 THEN H4_TYPE_COMMAND
            ELSE IF i <= 1 + SIZEOF_HCI_CMD_DEF THEN preamble[i - 1]
            ELSE 0]

(***************************************************************************)
(* The singleton's initial record.                                         *)
(***************************************************************************)
ZeroAddr == [i \in 1..BD_ADDR_LEN |-> 0]

network_bluetooth_singleton_params ==
    [ adv_int_min |-> DEFAULT_INTERVAL, adv_int_max |-> DEFAULT_INTERVAL,
      adv_type |-> 0, own_addr_type |-> 0, peer_addr |-> ZeroAddr,
      peer_addr_type |-> 0, channel_map |-> 7, adv_filter_policy |-> 0 ]

network_bluetooth_singleton_data ==
    [ set_scan_rsp |-> FALSE, include_name |-> FALSE, include_txpower |-> FALSE,
      min_interval |-> DEFAULT_INTERVAL, max_interval |-> DEFAULT_INTERVAL,
      appearance |-> 0, p_manufacturer_data |-> NULL, manufacturer_len |-> 0,
      p_service_data |-> NULL, service_data_len |-> 0, p_service_uuid |-> NULL,
      flag |-> 0 ]

FreeCell == [live |-> FALSE, bytes |-> <<>>]

NoCall == [op |-> "none", result |-> "none", peer |-> "-", man |-> "-", dev |-> "-"]

(***************************************************************************)
(* Life cycle: network_bluetooth_init, network_bluetooth_send_hci_reset,   *)
(* network_bluetooth_send_data, network_bluetooth_make_new and             *)
(* network_bluetooth_deinit.  A call runs on a task; vTaskDelay is the     *)
(* only point where a call is suspended.                                   *)
(***************************************************************************)
Finished(op, result) ==
    [op |-> op, result |-> result, peer |-> "-", man |-> "-", dev |-> "-"]

\* What the entry point hands back when network_bluetooth_init returns:
\* init returns mp_const_none, make_new returns the singleton.
InitResult(e) == IF e = "make_new" THEN "self" ELSE "None"

\* Mutant of InitNeeded: the state test is dropped and every call initialises.
InitNeeded_Always(st) == TRUE

\* if (self->state == NETWORK_BLUETOOTH_STATE_DEINIT)
InitNeeded(st) == st = "DEINIT"

\* Mutant of EnableFailed: the default case does not raise.
EnableFailed_Ignored(r) == FALSE

\* switch(ret) { case ESP_OK: break; default: mp_raise_msg(OSError) }
EnableFailed(r) == r # "ESP_OK"

\* self->state = NETWORK_BLUETOOTH_STATE_INIT
StateAfterInit == "INIT"

\* Mutant of LoopContinues: the loop waits for readiness without a budget.
LoopContinues_NoBudget(ready, tr) == (ready = FALSE)

\* while(((ready = esp_vhci_host_check_send_available()) == false) && tries--)
\* The loop body runs when the poll answered not-ready and tries was not 0.
LoopContinues(ready, tr) == (ready = FALSE) /\ (tr # 0)

\* The post-decrement of tries is evaluated only when the poll answered
\* not-ready (the && short-circuits otherwise).
TriesAfterPoll(ready, tr) == IF ready = FALSE THEN tr - 1 ELSE tr

\* esp_vhci_host_send_packet(buf, buf_size): the transport's log of frames.
HandToTransport(log, frame) == Append(log, frame)

\* A call starting on task t: the locals and per-call counters of the task's
\* previous call are gone.
FreshLocals(t) ==
    /\ ret' = [ret EXCEPT ![t] = "unset"]
    /\ buf' = [buf EXCEPT ![t] = <<>>]
    /\ tries' = [tries EXCEPT ![t] = 0]
    /\ polls' = [polls EXCEPT ![t] = 0]
    /\ sleeps' = [sleeps EXCEPT ![t] = 0]
    /\ handed' = [handed EXCEPT ![t] = 0]
    /\ call_enables' = [call_enables EXCEPT ![t] = 0]

\* The body of network_bluetooth_init up to its first suspension point,
\* entered from entry point e ("init" or "make_new").
InitBody(t, e) ==
    IF InitNeeded(state)
    THEN /\ Len(sent) < MaxSent
         /\ \E r \in {"ESP_OK", "ESP_FAIL"} :
              /\ ret' = [ret EXCEPT ![t] = r]
              /\ call_enables' = [call_enables EXCEPT ![t] = 1]
              /\ polls' = [polls EXCEPT ![t] = 0]
              /\ sleeps' = [sleeps EXCEPT ![t] = 0]
              /\ handed' = [handed EXCEPT ![t] = 0]
              /\ IF EnableFailed(r)
                 THEN /\ last' = Finished(e, "OSError")
                      /\ buf' = [buf EXCEPT ![t] = <<>>]
                      /\ tries' = [tries EXCEPT ![t] = 0]
                      /\ UNCHANGED <<pc, entry>>
                 ELSE /\ buf' = [buf EXCEPT ![t] = CREATE_HCI_HOST_COMMAND(HCI_CMD_RESET)]
                      /\ tries' = [tries EXCEPT ![t] = INITIAL_TRIES]
                      /\ pc' = [pc EXCEPT ![t] = "poll"]
                      /\ entry' = [entry EXCEPT ![t] = e]
                      /\ UNCHANGED last
         /\ UNCHANGED <<state, sent, constructed>>
    ELSE /\ FreshLocals(t)
         /\ last' = Finished(e, InitResult(e))
         /\ constructed' = (constructed \/ e = "make_new")
         /\ UNCHANGED <<state, sent, pc, entry>>

\* Bluetooth.init()
network_bluetooth_init(t) ==
    /\ ~crashed /\ pc[t] = "idle" /\ constructed
    /\ InitBody(t, "init")
    /\ UNCHANGED <<store, crashed, aux>>

\* Mutant of HasArguments: only positional arguments are rejected.
HasArguments_PositionalOnly(n_args, n_kw) == n_args # 0

\* if (n_args != 0 || n_kw != 0)
HasArguments(n_args, n_kw) == n_args # 0 \/ n_kw # 0

\* Bluetooth(...): the constructor, with n_args positional and n_kw keyword
\* arguments.
network_bluetooth_make_new(t, n_args, n_kw) ==
    /\ ~crashed /\ pc[t] = "idle"
    /\ IF HasArguments(n_args, n_kw)
       THEN /\ last' = Finished("make_new", "TypeError")
            /\ FreshLocals(t)
            /\ UNCHANGED <<lifecycle, pc, entry, constructed>>
       ELSE InitBody(t, "make_new")
    /\ UNCHANGED <<store, crashed, aux>>

\* One evaluation of the loop condition of network_bluetooth_send_data.
SendPoll(t) ==
    /\ ~crashed /\ pc[t] = "poll"
    /\ polls[t] < MaxPolls
    /\ \E ready \in BOOLEAN :
         /\ polls' = [polls EXCEPT ![t] = @ + 1]
         /\ tries' = [tries EXCEPT ![t] = TriesAfterPoll(ready, @)]
         /\ pc' = [pc EXCEPT ![t] = IF LoopContinues(ready, tries[t]) THEN "delay" ELSE "send"]
    /\ UNCHANGED <<store, lifecycle, ret, buf, sleeps, handed, call_enables, entry,
                   constructed, crashed, last, aux>>

\* The loop body: vTaskDelay, then back to the loop condition.
SendDelay(t) ==
    /\ ~crashed /\ pc[t] = "delay"
    /\ sleeps' = [sleeps EXCEPT ![t] = @ + 1]
    /\ pc' = [pc EXCEPT ![t] = "poll"]
    /\ UNCHANGED <<store, lifecycle, ret, buf, tries, polls, handed, call_enables,
                   entry, constructed, crashed, last, aux>>

\* esp_vhci_host_send_packet, the return to network_bluetooth_init, the
\* assignment of self->state and the return to the entry point.
SendPacket(t) ==
    /\ ~crashed /\ pc[t] = "send"
    /\ sent' = HandToTransport(sent, buf[t])
    /\ handed' = [handed EXCEPT ![t] = @ + 1]
    /\ state' = StateAfterInit
    /\ constructed' = (constructed \/ entry[t] = "make_new")
    /\ last' = Finished(entry[t], InitResult(entry[t]))
    /\ pc' = [pc EXCEPT ![t] = "idle"]
    /\ UNCHANGED <<store, ret, buf, tries, polls, sleeps, call_enables,
                   entry, crashed, aux>>

\* Bluetooth.deinit(): a stub that only returns mp_const_none.
network_bluetooth_deinit(t) ==
    /\ ~crashed /\ pc[t] = "idle" /\ constructed
    /\ last' = Finished("deinit", "None")
    /\ FreshLocals(t)
    /\ UNCHANGED <<store, lifecycle, pc, entry, constructed, crashed, aux>>

(***************************************************************************)
(* Values handed to ble_settings by the binding layer.                     *)
(***************************************************************************)
\* A MicroPython object: its type and, for buffer types, its bytes.
Obj(type, bytes) == [type |-> type, bytes |-> bytes]
\* MP_OBJ_NULL: the keyword was not supplied.
MP_OBJ_NULL == Obj("NULL", <<>>)
mp_const_none == Obj("NoneType", <<>>)

\* A 6-byte and a 5-byte address, a manufacturer payload and a device name.
AddrA == <<1, 2, 3, 4, 5, 6>>
AddrShort == <<1, 2, 3, 4, 5>>
ManBytes == <<9, 8>>
NameBytes == <<110>>

PeerAddrInputs ==
    { MP_OBJ_NULL, Obj("bytes", AddrA), Obj("bytearray", AddrShort), Obj("bytearray", AddrA) }
ManNameInputs ==
    { MP_OBJ_NULL, mp_const_none, Obj("int", <<>>), Obj("bytes", <<>>), Obj("bytes", ManBytes) }
DevNameInputs ==
    { MP_OBJ_NULL, mp_const_none, Obj("int", <<>>), Obj("str", <<>>), Obj("str", NameBytes) }

\* The integer keywords; -1 is the "not supplied" default of allowed_args.
NoInts ==
    [ int_min |-> -1, int_max |-> -1, type |-> -1, own_addr_type |-> -1,
      peer_addr_type |-> -1, channel_map |-> -1, filter_policy |-> -1 ]
IntInputs ==
    { NoInts,
      [NoInts EXCEPT !.int_min = 3],
      [NoInts EXCEPT !.int_max = 5, !.type = 3, !.own_addr_type = 1,
                     !.peer_addr_type = 1, !.channel_map = 1, !.filter_policy = 2] }
ScanRspInputs == {-1, 1}

Args(i, p, m, d, sr) ==
    [ints |-> i, peer_addr |-> p, adv_man_name |-> m, adv_dev_name |-> d,
     adv_is_scan_rsp |-> sr]

SettingsArgs ==
    { Args(i, p, m, d, sr) :
        i \in IntInputs, p \in PeerAddrInputs, m \in ManNameInputs,
        d \in DevNameInputs, sr \in ScanRspInputs }

\* What kind of value a keyword was given (recorded with the finished call).
PeerKind(o) ==
    IF o.type = "NULL" THEN "absent"
    ELSE IF o.type # "bytearray" THEN "badtype"
    ELSE IF Len(o.bytes) # BD_ADDR_LEN THEN "badlen" ELSE "ok"
NameKind(o) ==
    IF o.type = "NULL" THEN "absent"
    ELSE IF o.type = "NoneType" THEN "clear"
    ELSE IF o.type \notin {"str", "bytes"} THEN "badtype"
    ELSE IF Len(o.bytes) = 0 THEN "empty" ELSE "bytes"

(***************************************************************************)
(* m_malloc / m_free and the C-level helpers ble_settings uses.            *)
(***************************************************************************)
\* The record ble_settings works on: the store plus the pending exception.
Machine(p, d, h, df, dn) ==
    [params |-> p, data |-> d, heap |-> h, double_free |-> df, dev_name |-> dn]

\* m_free(p)
m_free(m, p) ==
    IF m.heap[p].live
    THEN [m EXCEPT !.heap[p] = FreeCell]
    ELSE [m EXCEPT !.double_free = TRUE]

\* m_malloc: the addresses it may return (none when the heap is full; the
\* caller also covers the allocator failing under memory pressure).
FreeAddrs(h) == { a \in DOMAIN h : ~h[a].live }
LowestFree(h) == CHOOSE a \in FreeAddrs(h) : \A b \in FreeAddrs(h) : a <= b

\* mp_buffer_info_t
BufInfo(nonnull, bytes, len) == [nonnull |-> nonnull, bytes |-> bytes, len |-> len]
\* mp_buffer_info_t x = { 0 }
ZeroBufInfo == BufInfo(FALSE, <<>>, 0)

\* memcpy(dst, src, n) into a fresh n-byte destination; bytes read past the
\* end of src are whatever follows it in memory (0 in the model).
memcpy(src, n) == [i \in 1..n |-> IF i <= Len(src) THEN src[i] ELSE 0]

\* mp_obj_str_get_buffer of a null object pointer loads the len and data
\* fields from addresses 8 and 12, which the ESP32 answers with a fatal
\* LoadProhibited exception: the call never returns.
NullReadOutcomes ==
    { [crash |-> TRUE, info |-> ZeroBufInfo] }

\* mp_obj_str_get_buffer(o, &info, MP_BUFFER_READ) applied to the peer_addr
\* object: a null pointer when the keyword is absent, else a bytearray, whose
\* len and items fields lie where a str object keeps len and data.
mp_obj_str_get_buffer(o) ==
    IF o.type = "NULL" THEN NullReadOutcomes
    ELSE { [crash |-> FALSE, info |-> BufInfo(TRUE, o.bytes, Len(o.bytes))] }

\* Bytes a C-string reader takes from a buffer: up to the first 0; when the
\* buffer holds no 0 the read runs past its end into `tail`.
Overread == { <<>>, <<255>> }
FirstZero(b) == CHOOSE i \in 1..Len(b) : b[i] = 0 /\ \A j \in 1..(i - 1) : b[j] # 0
CString(b, tail) ==
    IF \E i \in 1..Len(b) : b[i] = 0 THEN SubSeq(b, 1, FirstZero(b) - 1) ELSE b \o tail

\* Mutant of BadPeerAddr: the length of the bytearray is not checked.
BadPeerAddr_TypeOnly(o) == o.type # "NULL" /\ o.type # "bytearray"

\* pre-check of peer_addr: not a bytearray, or not ESP_BD_ADDR_LEN bytes.
BadPeerAddr(o) ==
    o.type # "NULL" /\ (o.type # "bytearray" \/ Len(o.bytes) # BD_ADDR_LEN)

\* mp_obj_get_type(o) == mp_const_none, the test that selects the "clear" branch.
IsClear(o) == o.type = "NoneType"
\* MP_OBJ_IS_STR_OR_BYTES(o)
MP_OBJ_IS_STR_OR_BYTES(o) == o.type \in {"str", "bytes"}

\* self->data.manufacturer_len = 0; if (p_manufacturer_data != NULL) m_free(...)
FreeManufacturer(m) ==
    LET m1 == [m EXCEPT !.data.manufacturer_len = 0]
        p == m.data.p_manufacturer_data
    IN  IF p # NULL THEN m_free(m1, p) ELSE m1

\* self->data.p_manufacturer_data = NULL, the statement after m_free.
NullManufacturer(m) == [m EXCEPT !.data.p_manufacturer_data = NULL]

\* self->data.manufacturer_len = 0; free and null p_manufacturer_data.
ReleaseManufacturer(m) ==
    IF m.data.p_manufacturer_data # NULL THEN NullManufacturer(FreeManufacturer(m))
    ELSE FreeManufacturer(m)

\* Interval in milliseconds to 0.625 ms counts: "x * 1.6" stored in a uint16_t
\* (the conversion from double truncates).
ScaleInterval(ms) == ((ms * 16) \div 10) % 65536

(***************************************************************************)
(* network_bluetooth_ble_settings.  Each stage maps the record it is given *)
(* to the set of records the code can leave (more than one where the code  *)
(* depends on the allocator or on undefined behaviour).                    *)
(***************************************************************************)
Stage(m, info, exc) == [m |-> m, info |-> info, exc |-> exc]
Ended(m, exc) == [m |-> m, exc |-> exc]

\* mp_get_buffer(args[ARG_peer_addr].u_obj, &peer_addr_buf, MP_BUFFER_READ),
\* left zeroed when the keyword is absent.
PeerAddrBuf(o) ==
    IF o.type = "NULL" THEN ZeroBufInfo ELSE BufInfo(TRUE, o.bytes, Len(o.bytes))

\* The pre-check of adv_man_name: the clear branch, the type check, and the
\* buffer read, which is made of args[ARG_peer_addr].
ManCheck(m, a) ==
    IF a.adv_man_name.type = "NULL" THEN { Stage(m, ZeroBufInfo, "none") }
    ELSE IF ~IsClear(a.adv_man_name) /\ ~MP_OBJ_IS_STR_OR_BYTES(a.adv_man_name)
    THEN { Stage(m, ZeroBufInfo, "ValueError_adv_man_name") }
    ELSE LET m1 == IF IsClear(a.adv_man_name) THEN ReleaseManufacturer(m) ELSE m
         IN  { Stage(m1, r.info, IF r.crash THEN "crash" ELSE "none") :
                   r \in mp_obj_str_get_buffer(a.peer_addr) }

\* The pre-check of adv_dev_name: same shape; the clear branch calls
\* esp_ble_gap_set_device_name("") and resets include_name.
DevCheck(m, a) ==
    IF a.adv_dev_name.type = "NULL" THEN { Stage(m, ZeroBufInfo, "none") }
    ELSE IF ~IsClear(a.adv_dev_name) /\ ~MP_OBJ_IS_STR_OR_BYTES(a.adv_dev_name)
    THEN { Stage(m, ZeroBufInfo, "ValueError_adv_dev_name") }
    ELSE LET m1 == IF IsClear(a.adv_dev_name)
                   THEN [m EXCEPT !.dev_name = <<>>, !.data.include_name = FALSE]
                   ELSE m
         IN  { Stage(m1, r.info, IF r.crash THEN "crash" ELSE "none") :
                   r \in mp_obj_str_get_buffer(a.peer_addr) }

\* The first two assignments of "update esp_ble_adv_params_t": int_min and
\* int_max.
UpdateIntervals(m, a) ==
    LET i == a.ints
        p == m.params
    IN  [m EXCEPT
          !.params.adv_int_min =
              IF i.int_min # -1 THEN ScaleInterval(i.int_min) ELSE p.adv_int_min,
          !.params.adv_int_max =
              IF i.int_max # -1 THEN ScaleInterval(i.int_max) ELSE p.adv_int_max]

\* "update esp_ble_adv_params_t": every supplied integer keyword and the
\* peer address are copied into self->params.
UpdateParams(m, a, peer_buf) ==
    LET i == a.ints
        p == m.params
    IN  [m EXCEPT !.params =
          [ adv_int_min |-> IF i.int_min # -1 THEN ScaleInterval(i.int_min) ELSE p.adv_int_min,
            adv_int_max |-> IF i.int_max # -1 THEN ScaleInterval(i.int_max) ELSE p.adv_int_max,
            adv_type |-> IF i.type # -1 THEN i.type ELSE p.adv_type,
            own_addr_type |-> IF i.own_addr_type # -1 THEN i.own_addr_type ELSE p.own_addr_type,
            peer_addr |-> IF peer_buf.nonnull THEN memcpy(peer_buf.bytes, BD_ADDR_LEN)
                          ELSE p.peer_addr,
            peer_addr_type |-> IF i.peer_addr_type # -1 THEN i.peer_addr_type
                               ELSE p.peer_addr_type,
            channel_map |-> IF i.channel_map # -1 THEN i.channel_map ELSE p.channel_map,
            adv_filter_policy |-> IF i.filter_policy # -1 THEN i.filter_policy
                                  ELSE p.adv_filter_policy ]]

\* The assignments after int_max: type, own_addr_type, the peer address,
\* peer_addr_type, channel_map and filter_policy.
UpdateRest(m, a, peer_buf) ==
    LET i == a.ints
        p == m.params
    IN  [m EXCEPT
          !.params.adv_type = IF i.type # -1 THEN i.type ELSE p.adv_type,
          !.params.own_addr_type =
              IF i.own_addr_type # -1 THEN i.own_addr_type ELSE p.own_addr_type,
          !.params.peer_addr =
              IF peer_buf.nonnull THEN memcpy(peer_buf.bytes, BD_ADDR_LEN) ELSE p.peer_addr,
          !.params.peer_addr_type =
              IF i.peer_addr_type # -1 THEN i.peer_addr_type ELSE p.peer_addr_type,
          !.params.channel_map = IF i.channel_map # -1 THEN i.channel_map ELSE p.channel_map,
          !.params.adv_filter_policy =
              IF i.filter_policy # -1 THEN i.filter_policy ELSE p.adv_filter_policy]

\* self->data.set_scan_rsp = mp...: the right-hand side is cut off in the
\* source, so the value stored is not determined.
UpdateScanRsp(m, a) ==
    IF a.adv_is_scan_rsp # -1
    THEN { [m EXCEPT !.data.set_scan_rsp = b] : b \in BOOLEAN }
    ELSE { m }

\* if (adv_dev_name_buf.buf != NULL): forward the buffer as a C string and
\* set include_name from its length.
UpdateDevName(m, dev_buf) ==
    IF dev_buf.nonnull
    THEN { [m EXCEPT !.dev_name = CString(dev_buf.bytes, tail),
                     !.data.include_name = (dev_buf.len > 0)] : tail \in Overread }
    ELSE { m }

\* The length recorded after a new manufacturer buffer was filled.
RecordedManufacturerLen(man_buf) == 0

\* if (buffer.len > 0): m_malloc (which raises MemoryError when it cannot
\* serve the request), memcpy, include_name and the length.
FillManufacturer(m1, man_buf) ==
    IF man_buf.len > 0
    THEN { Ended(m1, "MemoryError") } \cup
         { Ended([m1 EXCEPT
                    !.heap[addr] = [live |-> TRUE,
                                    bytes |-> memcpy(man_buf.bytes, man_buf.len)],
                    !.data.p_manufacturer_data = addr,
                    !.data.include_name = (man_buf.len > 0),
                    !.data.manufacturer_len = RecordedManufacturerLen(man_buf)],
                 "none") :
             addr \in IF FreeAddrs(m1.heap) = {} THEN {}
                      ELSE { LowestFree(m1.heap) } }
    ELSE { Ended(m1, "none") }

\* if (adv_man_name_buf.buf != NULL): release the old buffer, and for a
\* non-empty buffer allocate, copy, set include_name and the length.
\* ("buffer" of the source is read as adv_man_name_buf, the only buffer info
\* of the manufacturer payload in scope.)
UpdateManufacturer(m, man_buf) ==
    IF ~man_buf.nonnull THEN { Ended(m, "none") }
    ELSE FillManufacturer(ReleaseManufacturer(m), man_buf)

\* The update part of the call, after all pre-checks passed.
ApplySettings(m, a, man_buf, dev_buf) ==
    UNION { UNION { UpdateManufacturer(m3, man_buf) : m3 \in UpdateDevName(m2, dev_buf) } :
              m2 \in UpdateScanRsp(UpdateParams(m, a, PeerAddrBuf(a.peer_addr)), a) }

AfterManCheck(r1, a) ==
    IF r1.exc # "none" THEN { Ended(r1.m, r1.exc) }
    ELSE UNION { IF r2.exc # "none" THEN { Ended(r2.m, r2.exc) }
                 ELSE ApplySettings(r2.m, a, r1.info, r2.info) :
                   r2 \in DevCheck(r1.m, a) }

\* Every way the call can end from record m with arguments a.
SettingsOutcomes(m, a) ==
    IF BadPeerAddr(a.peer_addr) THEN { Ended(m, "ValueError_peer_addr") }
    ELSE UNION { AfterManCheck(r1, a) : r1 \in ManCheck(m, a) }

\* The call as one step, from the argument parse to the return or raise.
ble_settings_call(t, a) ==
    /\ ~crashed /\ pc[t] = "idle" /\ constructed
    /\ \E r \in SettingsOutcomes(Machine(params, data, heap, double_free, dev_name), a) :
         /\ params' = r.m.params
         /\ data' = r.m.data
         /\ heap' = r.m.heap
         /\ double_free' = r.m.double_free
         /\ dev_name' = r.m.dev_name
         /\ crashed' = (r.exc = "crash")
         /\ last' = [ op |-> "ble_settings",
                      result |-> IF r.exc = "none" THEN "None" ELSE r.exc,
                      peer |-> PeerKind(a.peer_addr),
                      man |-> NameKind(a.adv_man_name),
                      dev |-> NameKind(a.adv_dev_name) ]
    /\ FreshLocals(t)
    /\ UNCHANGED <<lifecycle, pc, entry, constructed, pend, seen>>

\* Bluetooth.ble_settings(**kw)
network_bluetooth_ble_settings(t, a) ==
    ble_settings_call(t, a) /\ UNCHANGED given

\* Bluetooth.ble_settings(**kw), the arguments of the call kept for the
\* properties that compare a call with what it was given.
ble_settings_recorded(t, a) ==
    ble_settings_call(t, a) /\ given' = a

(***************************************************************************)
(* network_bluetooth_ble_settings and network_bluetooth_print as the steps *)
(* a task can be preempted between.  Nothing in the source holds a lock    *)
(* around them: between two steps of one task any other task may run.      *)
(***************************************************************************)
\* No keyword supplied: every args[] entry holds its allowed_args default.
NoArgs == Args(NoInts, MP_OBJ_NULL, MP_OBJ_NULL, MP_OBJ_NULL, -1)
\* No ble_settings call in progress on a task.
NoPend == [a |-> NoArgs, man_buf |-> ZeroBufInfo, dev_buf |-> ZeroBufInfo]

CurrentMachine == Machine(params, data, heap, double_free, dev_name)

SetStore(m) ==
    /\ params' = m.params
    /\ data' = m.data
    /\ heap' = m.heap
    /\ double_free' = m.double_free
    /\ dev_name' = m.dev_name

\* The call of task t returns (exc = "none") or is left by an exception; its
\* args[] and buffer infos are gone.
SettingsLeave(t, exc) ==
    /\ last' = [ op |-> "ble_settings",
                 result |-> IF exc = "none" THEN "None" ELSE exc,
                 peer |-> PeerKind(pend[t].a.peer_addr),
                 man |-> NameKind(pend[t].a.adv_man_name),
                 dev |-> NameKind(pend[t].a.adv_dev_name) ]
    /\ crashed' = (exc = "crash")
    /\ pc' = [pc EXCEPT ![t] = "idle"]
    /\ pend' = [pend EXCEPT ![t] = NoPend]

\* The call of task t goes on at `where`, its buffer infos as they are.
SettingsStep(t, where) ==
    /\ pc' = [pc EXCEPT ![t] = where]
    /\ UNCHANGED <<last, crashed, pend>>

SettingsGoto(t, where) ==
    /\ pc' = [pc EXCEPT ![t] = where]
    /\ UNCHANGED <<last, crashed>>

\* mp_obj_str_get_buffer(args[ARG_peer_addr].u_obj, &adv_man_name_buf, ...)
\* and on to the pre-check of adv_dev_name.
ReadManBuffer(t) ==
    \E r \in mp_obj_str_get_buffer(pend[t].a.peer_addr) :
        IF r.crash
        THEN SettingsLeave(t, "crash")
        ELSE /\ pend' = [pend EXCEPT ![t].man_buf = r.info]
             /\ SettingsGoto(t, "dev_check")

\* Entry, mp_arg_parse_all and the pre-check of peer_addr.
SettingsEnter(t, a) ==
    /\ ~crashed /\ pc[t] = "idle" /\ constructed
    /\ FreshLocals(t)
    /\ IF BadPeerAddr(a.peer_addr)
       THEN /\ last' = [ op |-> "ble_settings", result |-> "ValueError_peer_addr",
                         peer |-> PeerKind(a.peer_addr),
                         man |-> NameKind(a.adv_man_name),
                         dev |-> NameKind(a.adv_dev_name) ]
            /\ UNCHANGED <<pc, pend>>
       ELSE /\ pc' = [pc EXCEPT ![t] = "man_check"]
            /\ pend' = [pend EXCEPT ![t] = [NoPend EXCEPT !.a = a]]
            /\ UNCHANGED last
    /\ UNCHANGED <<store, lifecycle, entry, constructed, crashed, given, seen>>

\* The pre-check of adv_man_name up to and including m_free; where nothing
\* is freed, also the buffer read that follows.
SettingsManCheck(t) ==
    /\ ~crashed /\ pc[t] = "man_check"
    /\ LET o == pend[t].a.adv_man_name IN
       IF o.type = "NULL"
       THEN SettingsStep(t, "dev_check") /\ UNCHANGED store
       ELSE IF ~IsClear(o) /\ ~MP_OBJ_IS_STR_OR_BYTES(o)
       THEN SettingsLeave(t, "ValueError_adv_man_name") /\ UNCHANGED store
       ELSE IF IsClear(o)
       THEN /\ SetStore(FreeManufacturer(CurrentMachine))
            /\ IF data.p_manufacturer_data # NULL
               THEN SettingsStep(t, "man_null")
               ELSE ReadManBuffer(t)
       ELSE ReadManBuffer(t) /\ UNCHANGED store
    /\ UNCHANGED <<lifecycle, locals, entry, constructed, given, seen>>

\* self->data.p_manufacturer_data = NULL of the clear branch, and the buffer
\* read that follows.
SettingsManNull(t) ==
    /\ ~crashed /\ pc[t] = "man_null"
    /\ SetStore(NullManufacturer(CurrentMachine))
    /\ ReadManBuffer(t)
    /\ UNCHANGED <<lifecycle, locals, entry, constructed, given, seen>>

\* The pre-check of adv_dev_name.
SettingsDevCheck(t) ==
    /\ ~crashed /\ pc[t] = "dev_check"
    /\ \E r \in DevCheck(CurrentMachine, pend[t].a) :
         /\ SetStore(r.m)
         /\ IF r.exc # "none"
            THEN SettingsLeave(t, r.exc)
            ELSE /\ pend' = [pend EXCEPT ![t].dev_buf = r.info]
                 /\ SettingsGoto(t, "params_a")
    /\ UNCHANGED <<lifecycle, locals, entry, constructed, given, seen>>

\* The assignments of adv_int_min and adv_int_max.
SettingsIntervals(t) ==
    /\ ~crashed /\ pc[t] = "params_a"
    /\ SetStore(UpdateIntervals(CurrentMachine, pend[t].a))
    /\ SettingsStep(t, "params_b")
    /\ UNCHANGED <<lifecycle, locals, entry, constructed, given, seen>>

\* The other assignments to self->params.
SettingsRest(t) ==
    /\ ~crashed /\ pc[t] = "params_b"
    /\ SetStore(UpdateRest(CurrentMachine, pend[t].a, PeerAddrBuf(pend[t].a.peer_addr)))
    /\ SettingsStep(t, "data")
    /\ UNCHANGED <<lifecycle, locals, entry, constructed, given, seen>>

\* set_scan_rsp and the device name.
SettingsData(t) ==
    /\ ~crashed /\ pc[t] = "data"
    /\ \E m2 \in UpdateScanRsp(CurrentMachine, pend[t].a) :
         \E m3 \in UpdateDevName(m2, pend[t].dev_buf) : SetStore(m3)
    /\ SettingsStep(t, "man_update")
    /\ UNCHANGED <<lifecycle, locals, entry, constructed, given, seen>>

\* if (adv_man_name_buf.buf != NULL): manufacturer_len = 0 and m_free.
SettingsManUpdate(t) ==
    /\ ~crashed /\ pc[t] = "man_update"
    /\ IF ~pend[t].man_buf.nonnull
       THEN SettingsLeave(t, "none") /\ UNCHANGED store
       ELSE /\ SetStore(FreeManufacturer(CurrentMachine))
            /\ SettingsStep(t, IF data.p_manufacturer_data # NULL
                               THEN "upd_null" ELSE "upd_fill")
    /\ UNCHANGED <<lifecycle, locals, entry, constructed, given, seen>>

\* self->data.p_manufacturer_data = NULL after that m_free.
SettingsUpdNull(t) ==
    /\ ~crashed /\ pc[t] = "upd_null"
    /\ SetStore(NullManufacturer(CurrentMachine))
    /\ SettingsStep(t, "upd_fill")
    /\ UNCHANGED <<lifecycle, locals, entry, constructed, given, seen>>

\* if (buffer.len > 0) { m_malloc, memcpy, ... } and the return.
SettingsFill(t) ==
    /\ ~crashed /\ pc[t] = "upd_fill"
    /\ \E r \in FillManufacturer(CurrentMachine, pend[t].man_buf) :
         /\ SetStore(r.m)
         /\ SettingsLeave(t, r.exc)
    /\ UNCHANGED <<lifecycle, locals, entry, constructed, given, seen>>

\* (unsigned int)(x / 1.6): counts back to milliseconds, truncated.
UnscaleInterval(x) == (x * 10) \div 16

\* The values network_bluetooth_print hands to printf.
PrintedParams(p) ==
    [p EXCEPT !.adv_int_min = UnscaleInterval(p.adv_int_min),
              !.adv_int_max = UnscaleInterval(p.adv_int_max)]

\* print(bt) / repr(bt)
network_bluetooth_print(t) ==
    /\ ~crashed /\ pc[t] = "idle" /\ constructed
    /\ seen' = [seen EXCEPT ![t] = << PrintedParams(params) >>]
    /\ last' = Finished("print", "None")
    /\ FreshLocals(t)
    /\ UNCHANGED <<store, lifecycle, pc, entry, constructed, crashed, given, pend>>

(***************************************************************************)
(* The state after the static initialiser of network_bluetooth_singleton,  *)
(* before any call.                                                        *)
(***************************************************************************)
Init ==
    /\ state = "DEINIT"
    /\ params = network_bluetooth_singleton_params
    /\ data = network_bluetooth_singleton_data
    /\ heap = [a \in 1..HeapSize |-> FreeCell]
    /\ double_free = FALSE
    /\ dev_name = <<>>
    /\ sent = <<>>
    /\ pc = [t \in Tasks |-> "idle"]
    /\ ret = [t \in Tasks |-> "unset"]
    /\ buf = [t \in Tasks |-> <<>>]
    /\ tries = [t \in Tasks |-> 0]
    /\ polls = [t \in Tasks |-> 0]
    /\ sleeps = [t \in Tasks |-> 0]
    /\ handed = [t \in Tasks |-> 0]
    /\ call_enables = [t \in Tasks |-> 0]
    /\ entry = [t \in Tasks |-> "none"]
    /\ constructed = FALSE
    /\ crashed = FALSE
    /\ last = NoCall
    /\ given = NoArgs
    /\ pend = [t \in Tasks |-> NoPend]
    /\ seen = [t \in Tasks |-> <<>>]

(***************************************************************************)
(* Specifications.  Spec runs every call to completion on one task, the    *)
(* way the cooperative single-threaded host of the original does.          *)
(***************************************************************************)
Next ==
    \/ \E n_args \in 0..1, n_kw \in 0..1 :
          network_bluetooth_make_new(MainTask, n_args, n_kw)
    \/ network_bluetooth_init(MainTask)
    \/ network_bluetooth_deinit(MainTask)
    \/ \E a \in SettingsArgs : network_bluetooth_ble_settings(MainTask, a)
    \/ SendPoll(MainTask)
    \/ SendDelay(MainTask)
    \/ SendPacket(MainTask)

Spec == Init /\ [][Next]_vars

\* The send loop and the packet hand-over are straight-line code of a running
\* task: once reached they are executed.
FairSpec ==
    Spec /\ WF_vars(SendPoll(MainTask)) /\ WF_vars(SendDelay(MainTask))
         /\ WF_vars(SendPacket(MainTask))

\* The keyword sets RecSpec calls ble_settings with: every keyword absent or
\* of a type that passes the type checks, and adv_is_scan_rsp absent (the
\* statement that stores it is cut off in the source).
RecArgs ==
    { a \in SettingsArgs :
        /\ a.peer_addr \in { MP_OBJ_NULL, Obj("bytearray", AddrA) }
        /\ a.adv_man_name.type # "int"
        /\ a.adv_dev_name.type # "int"
        /\ a.adv_is_scan_rsp = -1 }

\* The calls of Spec, every ble_settings call leaving its arguments in `given`.
RecNext ==
    \/ \E n_args \in 0..1, n_kw \in 0..1 :
          network_bluetooth_make_new(MainTask, n_args, n_kw)
    \/ network_bluetooth_init(MainTask)
    \/ network_bluetooth_deinit(MainTask)
    \/ \E a \in RecArgs : ble_settings_recorded(MainTask, a)
    \/ SendPoll(MainTask)
    \/ SendDelay(MainTask)
    \/ SendPacket(MainTask)

RecSpec == Init /\ [][RecNext]_vars

\* The keyword sets the tasks of ConcSpec call ble_settings with: the integer
\* parameters, a manufacturer payload, and the manufacturer clear value.
ConcArgs ==
    { Args([NoInts EXCEPT !.int_max = 5, !.type = 3, !.own_addr_type = 1,
                          !.peer_addr_type = 1, !.channel_map = 1, !.filter_policy = 2],
           MP_OBJ_NULL, MP_OBJ_NULL, MP_OBJ_NULL, -1),
      Args(NoInts, Obj("bytearray", AddrA), Obj("bytes", ManBytes), MP_OBJ_NULL, -1),
      Args(NoInts, Obj("bytearray", AddrA), mp_const_none, MP_OBJ_NULL, -1) }

\* The task that prints the object.
ReaderTask == "other"

\* Every task makes calls; a call runs step by step and the tasks' steps
\* interleave.
ConcNext ==
    \/ \E t \in Tasks :
          \/ \E n_args \in 0..1, n_kw \in 0..1 :
                network_bluetooth_make_new(t, n_args, n_kw)
          \/ network_bluetooth_init(t)
          \/ network_bluetooth_deinit(t)
          \/ SendPoll(t)
          \/ SendDelay(t)
          \/ SendPacket(t)
          \/ \E a \in ConcArgs : SettingsEnter(t, a)
          \/ SettingsManCheck(t)
          \/ SettingsManNull(t)
          \/ SettingsDevCheck(t)
          \/ SettingsIntervals(t)
          \/ SettingsRest(t)
          \/ SettingsData(t)
          \/ SettingsManUpdate(t)
          \/ SettingsUpdNull(t)
          \/ SettingsFill(t)
    \/ network_bluetooth_print(ReaderTask)

ConcSpec == Init /\ [][ConcNext]_vars

(***************************************************************************)
(* Properties.                                                             *)
(***************************************************************************)
ResetFrame == CREATE_HCI_HOST_COMMAND(HCI_CMD_RESET)
InitReturned == last.op \in {"init", "make_new"} /\ last.result \in {"None", "self"}
SettingsReturned == last.op = "ble_settings" /\ last.result = "None"
LiveBlocks == { a \in DOMAIN heap : heap[a].live }

\* C1: once a call of network_bluetooth_init has returned normally, the
\* state is INIT and the transport has been handed exactly one frame, the
\* Reset frame, however many further init calls follow; and every init call
\* made after the first normal return itself returns normally.
C1_InitSendsOneReset ==
    /\ (InitReturned \/ constructed) =>
          (state = "INIT" /\ sent = <<ResetFrame>> /\ pc[MainTask] = "idle")
    /\ (constructed /\ last.op = "init") => last.result = "None"
    /\ (constructed /\ last.op = "make_new") => last.result \in {"self", "TypeError"}

\* C1 witness: an init() call made after the constructor's init has returned.
C1_Witness ==
    last.op = "init" /\ last.result = "None" /\ state = "INIT" /\ sent = <<ResetFrame>>

\* C2: when esp_bt_controller_enable reported a failure to an init call made
\* in state DEINIT, the call has ended with OSError, the state is still
\* DEINIT, no frame was handed to the transport, no poll was made and enable
\* was called once in that call.
C2_EnableFailure ==
    \A t \in Tasks :
        ret[t] = "ESP_FAIL" =>
            /\ pc[t] = "idle"
            /\ last.op \in {"init", "make_new"} /\ last.result = "OSError"
            /\ state = "DEINIT"
            /\ sent = <<>>
            /\ handed[t] = 0 /\ polls[t] = 0
            /\ call_enables[t] = 1

\* C2 witness: an init call whose enable failed.
C2_Witness == ret[MainTask] = "ESP_FAIL" /\ last.result = "OSError"

\* C3 (as claimed): after deinit() has returned, the state is DEINIT and the
\* advertising data owns no manufacturer buffer.
C3_DeinitReleases ==
    (last.op = "deinit" /\ last.result = "None") =>
        /\ state = "DEINIT"
        /\ data.p_manufacturer_data = NULL
        /\ data.manufacturer_len = 0

\* C4 (as claimed): one send evaluates the readiness predicate at most 3
\* times and sleeps at most 2 times.
C4_PollBudget ==
    \A t \in Tasks : polls[t] <= 3 /\ sleeps[t] <= 2

\* C5: a send never hands more than one frame over; while it loops, tries
\* is a non-negative count that every poll lowers; the step that leaves the
\* send hands exactly the Reset frame it was given to the transport, nothing
\* else changes the transport's log; and every send that started ends with
\* its frame handed over, whatever the readiness predicate answers.
C5_SendTerminatesOnce ==
    /\ [](\A t \in Tasks : handed[t] <= 1 /\ (pc[t] # "idle" => handed[t] = 0))
    /\ [](\A t \in Tasks : pc[t] \in {"poll", "delay"} =>
              (tries[t] >= 0 /\ polls[t] + tries[t] = INITIAL_TRIES))
    /\ [][\A t \in Tasks :
            /\ (pc[t] = "send" /\ pc'[t] # "send") =>
                  (sent' = Append(sent, ResetFrame) /\ handed'[t] = 1 /\ pc'[t] = "idle")
            /\ (sent' # sent) => (\E u \in Tasks : pc[u] = "send" /\ pc'[u] = "idle")]_vars
    /\ \A t \in Tasks : (pc[t] = "poll") ~> (pc[t] = "idle" /\ handed[t] = 1)

\* C5 witness: a finished send all of whose polls answered not-ready.
C5_Witness ==
    pc[MainTask] = "idle" /\ handed[MainTask] = 1 /\ tries[MainTask] = -1
    /\ sent = <<ResetFrame>>

\* C6: a ble_settings call given a peer address of a length other than 6
\* ends with the peer_addr ValueError and leaves params, data, the heap and
\* the controller's device name as they were.
C6_BadAddressLength ==
    [][(last'.op = "ble_settings" /\ last'.peer = "badlen") =>
          (last'.result = "ValueError_peer_addr" /\ UNCHANGED store /\ ~crashed')]_vars

\* C6 witness: such a call, which also supplied a manufacturer payload and a
\* device name, made on a store that differs from the initial one.
C6_Witness ==
    /\ last.op = "ble_settings" /\ last.peer = "badlen"
    /\ last.man = "bytes" /\ last.dev = "clear"
    /\ data.p_manufacturer_data # NULL
    /\ params # network_bluetooth_singleton_params
    /\ dev_name # <<>>

C8_PointerLengthAgree ==
    ~(data.p_manufacturer_data # NULL /\ data.manufacturer_len = 0)

C10_PayloadStored ==
    (SettingsReturned /\ last.man = "bytes") =>
        /\ data.p_manufacturer_data # NULL
        /\ heap[data.p_manufacturer_data].live
        /\ heap[data.p_manufacturer_data].bytes = ManBytes
        /\ data.manufacturer_len = Len(ManBytes)

\* round(m * 1.6) = round(16 m / 10), halves rounded up.
RoundedUnits(m) == (16 * m + 5) \div 10
FitsField(m) == m >= 0 /\ RoundedUnits(m) < 65536

\* C11 (as claimed): after a call that supplied int_min or int_max in
\* milliseconds, the stored interval is round(m * 1.6).
C11_IntervalRounded ==
    SettingsReturned =>
        /\ (given.ints.int_min # -1 /\ FitsField(given.ints.int_min)) =>
              params.adv_int_min = RoundedUnits(given.ints.int_min)
        /\ (given.ints.int_max # -1 /\ FitsField(given.ints.int_max)) =>
              params.adv_int_max = RoundedUnits(given.ints.int_max)

SettingsErrors ==
    { "ValueError_peer_addr", "ValueError_adv_man_name", "ValueError_adv_dev_name",
      "MemoryError", "crash" }
SettingsSucceeded(l) == l.op = "ble_settings" /\ l.result \notin SettingsErrors

\* C12 (as claimed): a ble_settings call that succeeds returns False when no
\* keyword was supplied and True when it changed a stored field.
C12_ReturnsChanged ==
    [][SettingsSucceeded(last') =>
          /\ (given' = NoArgs => last'.result = "False")
          /\ (store' # store => last'.result = "True")]_vars

\* The bytes of the manufacturer payload the record d owns in heap h.
Payload(d, h) ==
    IF d.p_manufacturer_data = NULL THEN <<>> ELSE h[d.p_manufacturer_data].bytes

\* C13 (as claimed): a ble_settings call that succeeds leaves every field
\* whose keyword it was not given as it was; include_name and the
\* controller's device name belong to adv_dev_name, the manufacturer pointer,
\* length and buffer to adv_man_name.
C13_OnlySuppliedFieldsChange ==
    [][SettingsSucceeded(last') =>
          LET i == given'.ints IN
          /\ (i.int_min = -1 => params'.adv_int_min = params.adv_int_min)
          /\ (i.int_max = -1 => params'.adv_int_max = params.adv_int_max)
          /\ (i.type = -1 => params'.adv_type = params.adv_type)
          /\ (i.own_addr_type = -1 => params'.own_addr_type = params.own_addr_type)
          /\ (i.peer_addr_type = -1 => params'.peer_addr_type = params.peer_addr_type)
          /\ (i.channel_map = -1 => params'.channel_map = params.channel_map)
          /\ (i.filter_policy = -1 =>
                 params'.adv_filter_policy = params.adv_filter_policy)
          /\ (given'.peer_addr = MP_OBJ_NULL => params'.peer_addr = params.peer_addr)
          /\ (given'.adv_is_scan_rsp = -1 => data'.set_scan_rsp = data.set_scan_rsp)
          /\ (given'.adv_dev_name = MP_OBJ_NULL =>
                 (data'.include_name = data.include_name /\ dev_name' = dev_name))
          /\ (given'.adv_man_name = MP_OBJ_NULL =>
                 /\ data'.p_manufacturer_data = data.p_manufacturer_data
                 /\ data'.manufacturer_len = data.manufacturer_len
                 /\ heap' = heap)
          /\ (/\ given'.adv_is_scan_rsp = -1
              /\ given'.adv_dev_name = MP_OBJ_NULL
              /\ given'.adv_man_name = MP_OBJ_NULL) => data' = data]_vars

\* C14 (as claimed): after a call that supplied adv_dev_name=None the
\* controller's device name is empty and include_name is false; after a call
\* that supplied a non-empty name the controller's device name is exactly
\* that name and include_name is true.
C14_DeviceNameForwarded ==
    SettingsReturned =>
        /\ given.adv_dev_name = mp_const_none =>
              (dev_name = <<>> /\ data.include_name = FALSE)
        /\ (given.adv_dev_name.type = "str" /\ given.adv_dev_name.bytes # <<>>) =>
              (dev_name = given.adv_dev_name.bytes /\ data.include_name = TRUE)

\* C15: a constructor call given a positional or a keyword argument ends
\* with TypeError and has changed neither the state, nor the transport's log,
\* nor the store; it has not called esp_bt_controller_enable and has not
\* started a send.
C15_ConstructorRejectsArguments ==
    [][\A n_args \in 0..1, n_kw \in 0..1 :
          (n_args + n_kw > 0 /\ network_bluetooth_make_new(MainTask, n_args, n_kw)) =>
              /\ last'.op = "make_new" /\ last'.result = "TypeError"
              /\ UNCHANGED <<state, sent, store, constructed, pc>>
              /\ call_enables'[MainTask] = 0
              /\ ret'[MainTask] = "unset"
              /\ polls'[MainTask] = 0 /\ handed'[MainTask] = 0]_vars

\* C15 witness: the constructor rejected its arguments in state DEINIT,
\* where a call without arguments would have enabled the controller.
C15_Witness ==
    /\ last.op = "make_new" /\ last.result = "TypeError"
    /\ state = "DEINIT" /\ sent = <<>> /\ ~constructed
    /\ call_enables[MainTask] = 0

\* The wire table of the four commands: OGF, OCF and parameter length.
WireTable(cmd) ==
    CASE cmd = 0 -> [ogf |-> 3, ocf |-> 3, param_len |-> 0]
      [] cmd = 1 -> [ogf |-> 8, ocf |-> 10, param_len |-> 1]
      [] cmd = 2 -> [ogf |-> 8, ocf |-> 6, param_len |-> 15]
      [] cmd = 3 -> [ogf |-> 8, ocf |-> 8, param_len |-> 31]
Zeros(n) == [i \in 1..n |-> 0]
ExpectedFrame(cmd) ==
    LET w == WireTable(cmd)
        opcode == w.ogf * 1024 + w.ocf
    IN  << 1, opcode % 256, opcode \div 256, w.param_len >> \o Zeros(w.param_len)

\* C16: the frame built for each of the four commands is the command type
\* byte 1, the opcode low byte first, the parameter length and that many
\* zero bytes, 4 + param_len bytes in all; the Reset frame, the one a send is
\* given and the transport receives, is 01 03 0C 00.
C16_FrameLayout ==
    /\ \A cmd \in 0..3 :
          /\ Len(CREATE_HCI_HOST_COMMAND(cmd)) = 1 + 3 + WireTable(cmd).param_len
          /\ CREATE_HCI_HOST_COMMAND(cmd) = ExpectedFrame(cmd)
    /\ CREATE_HCI_HOST_COMMAND(HCI_CMD_RESET) = <<1, 3, 12, 0>>
    /\ \A t \in Tasks : pc[t] \in {"poll", "delay", "send"} => buf[t] = <<1, 3, 12, 0>>
    /\ \A k \in 1..Len(sent) : sent[k] = <<1, 3, 12, 0>>

\* C16 witness: the Reset frame was built and handed to the transport.
C16_Witness ==
    /\ buf[MainTask] = <<1, 3, 12, 0>> /\ handed[MainTask] = 1
    /\ sent = << <<1, 3, 12, 0>> >>

\* C17 (as claimed): a call that succeeds and was given a zero-length
\* manufacturer payload leaves the manufacturer pointer, the recorded length
\* and the heap as they were.
C17_EmptyPayloadNoOp ==
    [][(SettingsSucceeded(last') /\ given'.adv_man_name = Obj("bytes", <<>>)) =>
          /\ data'.p_manufacturer_data = data.p_manufacturer_data
          /\ data'.manufacturer_len = data.manufacturer_len
          /\ heap' = heap]_vars

C19_SingleInitTransition ==
    /\ [][\A t \in Tasks : \A u \in Tasks \ {t} :
            pc[t] = "delay" => ~(pc[u] = "idle" /\ pc'[u] = "poll")]_vars
    /\ [](Len(sent) <= 1)

\* A call of task u has stored its intervals and not yet the parameters that
\* follow them, of which it was given both.
PartlyApplied(u) ==
    LET a == pend[u].a IN
    /\ pc[u] = "params_b"
    /\ (a.ints.int_min # -1 \/ a.ints.int_max # -1)
    /\ (\/ a.ints.type # -1 \/ a.ints.own_addr_type # -1 \/ a.ints.peer_addr_type # -1
        \/ a.ints.channel_map # -1 \/ a.ints.filter_policy # -1
        \/ a.peer_addr # MP_OBJ_NULL)

\* C20 (as claimed): no ble_settings call frees a manufacturer pointer that
\* another call has freed already, and no print reads params while another
\* task's call has applied only part of its fields.
C20_ExclusiveUpdate ==
    /\ [](~double_free)
    /\ [][\A t \in Tasks :
            (seen'[t] # seen[t]) => ~(\E u \in Tasks \ {t} : PartlyApplied(u))]_vars

====
